---- MODULE Spec2Model ----
(***************************************************************************)
(* JOBMATE_AI_BE: one durable orchestration instance of                    *)
(* JobMateOrchestrator, its four activity functions, the two report        *)
(* stores (MongoDB collection, Azure AI Search index) and the endpoints    *)
(* and activities that call them.                                          *)
(*                                                                         *)
(* Python dicts are functions with string domains, lists are sequences,    *)
(* a call's outcome is a record [raised, exc, value].  Texts are           *)
(* abstracted: the text of input file i is the number i, a joined text is  *)
(* the sequence of the numbers joined, fixed messages are ASCII tokens.    *)
(***************************************************************************)
EXTENDS Integers, Sequences, FiniteSets, TLC

\* ------------------------------------------------------------------ bounds
MaxFiles == 2
\* Saves (documents written) in one behaviour of the store specification.
MaxSaves == 2
\* Length of the longest next_actions list of a report.
MaxActions == 2

\* --------------------------------------------------------------- constants
FileKinds == {"doc", "audio"}
UserIds == {"anonymous_user", "u1"}
Summaries == {"", "summary"}
StoreModes == {"ok", "save_returns_false", "save_raises", "init_raises"}
ActivityNames == {"ContentAwareAgent", "ComprehensionEvaluationAgent",
                  "QuestionGenerationAgent", "ActionItemSuggestionAgent"}
AnalysisAgents == ActivityNames \ {"ContentAwareAgent"}
Stages == ActivityNames \cup {"SpeechToText"}
SearchModes == {"ok", "down"}
\* Report ids: the values uuid4() gives in one behaviour, and the one a
\* caller of SaveResultActivity or of CheckedApi names; a missing report_id
\* is 0.
ReportIds == 1..MaxSaves
NamedReportIds == {1}

VARIABLES
    request,      \* context.get_input(): the analysis request
    storeMode,    \* environment: how the MongoDB store answers
    status,       \* runtime status of the instance
    task,         \* per activity: none / scheduled / succeeded / failed
    taskInput,    \* per activity: the input the orchestrator passed
    taskResult,   \* per activity: the outcome of its run
    inbox,        \* events not yet delivered to the orchestrator
    history,      \* completion events the orchestrator has replayed
    invocations,  \* per stage: number of real executions
    episodes,     \* number of executions of the orchestrator body
    assembled,    \* analysis_result_dict exists (line 77 was passed)
    uuids,        \* number of uuid4() values drawn so far
    store,        \* the analysis_results collection (MongoDB)
    output,       \* the instance's return value
    search,       \* the documents of the Azure AI Search index
    clock,        \* datetime.now(), in ticks
    last,         \* the last store call: its arguments, result and the
                  \* collection it found
    http,         \* HttpStart: the request received and the response sent
    started,      \* the client_input of every start_new that succeeded
    calls         \* per concurrent CheckedApi call: its position and locals

instanceVars == <<request, storeMode, status, task, taskInput, taskResult,
                  inbox, history, invocations, episodes, assembled, output>>
edgeVars == <<http, started, calls>>
vars == <<request, storeMode, status, task, taskInput, taskResult, inbox,
          history, invocations, episodes, assembled, uuids, store, output,
          search, clock, last, http, started, calls>>

\* ----------------------------------------------------------------- helpers
EmptyDict == [k \in {} |-> 0]
Get(d, k, default) == IF k \in DOMAIN d THEN d[k] ELSE default
Returned(v) == [raised |-> FALSE, exc |-> "", value |-> v]
Raised(e) == [raised |-> TRUE, exc |-> e, value |-> EmptyDict]
Indices(s) == [i \in 1..Len(s) |-> i]
SeqsUpTo(S, n) == UNION {[1..k -> S] : k \in 0..n}

\* ----------------------------------------------- shared_code/models.py
ModelsExports ==
    {"NextAction", "Feedback", "FileAnalysisResult", "AnalysisRequest",
     "AnalysisResult"}

\* A dataclass __init__: TypeError on an unexpected keyword or a missing
\* field without default; otherwise the instance (asdict form).
DataclassInit(fields, required, defaults, kw) ==
    IF DOMAIN kw \subseteq fields /\ required \subseteq DOMAIN kw
    THEN Returned([f \in fields |-> IF f \in DOMAIN kw THEN kw[f] ELSE defaults[f]])
    ELSE Raised("TypeError")

NextActionFields == {"action", "priority", "key"}
NextActionInit(kw) ==
    DataclassInit(NextActionFields, {"action", "priority"},
                  [f \in {"key"} |-> "None"], kw)

FeedbackFields ==
    {"score", "good_points", "improvement_points", "missed_points",
     "mentor_comment", "reasoning_summary"}
FeedbackInit(kw) ==
    DataclassInit(FeedbackFields, {"score"},
                  [f \in FeedbackFields \ {"score"} |-> <<>>], kw)

AnalysisResultFields ==
    {"score", "feedback", "suggested_questions", "next_actions", "file_analysis"}
AnalysisResultInit(kw) ==
    DataclassInit(AnalysisResultFields, {"score", "feedback"},
                  [f \in AnalysisResultFields \ {"score", "feedback"} |->
                      IF f = "file_analysis" THEN "None" ELSE <<>>], kw)

FileAnalysisResult(name, type, text, st) ==
    [file_name |-> name, file_type |-> type, extracted_text |-> text,
     processing_status |-> st]

\* ------------------------------------------- SpeechToTextAgent/__init__.py
is_audio_or_video(kind) == kind = "audio"

\* One entry per audio/video file, in file order; never raises.
stt_for_files(file_names) ==
    SelectSeq(Indices(file_names), LAMBDA i : is_audio_or_video(file_names[i]))

\* ------------------------------------------- ContentAwareAgent/__init__.py
DocOutcomes == {"text", "empty", "fail"}

ContentErrorDict ==
    [file_analysis |-> <<>>, extracted_content |-> <<>>,
     total_files_processed |-> 0, error |-> "ValueError"]

ContentAwareAgent(req, configured, outcome) ==
    LET names == req.file_names
        stt_indices == SelectSeq(Indices(names), LAMBDA i : is_audio_or_video(names[i]))
        doc_indices == SelectSeq(Indices(names), LAMBDA i : ~is_audio_or_video(names[i]))
        sttEntry(i) == FileAnalysisResult(i, "audio_or_video", <<i>>, "stt_completed")
        docEntry(i) ==
            IF outcome[i] = "fail"
            THEN FileAnalysisResult(i, "unknown", <<>>, "error: exception text")
            ELSE FileAnalysisResult(i, "mime",
                     IF outcome[i] = "text" THEN <<i>> ELSE <<>>, "completed")
        docTexts == SelectSeq(doc_indices, LAMBDA i : outcome[i] = "text")
    IN  IF ~configured THEN Returned(ContentErrorDict)
        ELSE IF Len(req.files) = 0
        THEN Returned([file_analysis |-> <<>>, extracted_content |-> <<>>,
                       total_files_processed |-> 0])
        ELSE Returned(
               [file_analysis |->
                    [k \in 1..Len(stt_indices) |-> sttEntry(stt_indices[k])]
                    \o [k \in 1..Len(doc_indices) |-> docEntry(doc_indices[k])],
                extracted_content |-> stt_indices \o docTexts,
                total_files_processed |-> Len(req.files)])

\* -------------------------------- ComprehensionEvaluationAgent/__init__.py
ApiOutcomes == {"ok", "APIError", "Exception"}

\* What _parse_ai_response makes of the model's answer: a dict, or ValueError.
ParsedEvaluations ==
    { [ok |-> FALSE, data |-> EmptyDict],
      [ok |-> TRUE, data |-> [score |-> 50]],
      [ok |-> TRUE, data |-> [title |-> "t", score |-> 70,
                              good_points |-> <<"g">>,
                              improvement_points |-> <<"i">>,
                              missed_points |-> <<>>,
                              mentor_comment |-> "m",
                              reasoning_summary |-> <<"r">>]] }

\* _create_error_feedback: Feedback(title="분석 오류", score=0, ...).to_dict()
create_error_feedback(message) ==
    FeedbackInit([title |-> "analysis_error", score |-> 0, good_points |-> <<>>,
                  improvement_points |-> <<message>>,
                  missed_points |-> <<"analysis_not_completed">>])

ComprehensionEvaluationAgent(req, clientOK, api, parsed) ==
    IF ~clientOK THEN create_error_feedback("client_not_initialized")
    ELSE
    LET tryBody ==
            IF Get(req, "document_content", <<>>) = <<>>
               \/ Get(req, "user_summary", "") = ""
            THEN create_error_feedback("content_or_summary_missing")
            ELSE IF api # "ok" THEN Raised(api)
            ELSE IF ~parsed.ok THEN Raised("ValueError")
            ELSE FeedbackInit(
                   [title |-> Get(parsed.data, "title", ""),
                    score |-> Get(parsed.data, "score", 0),
                    good_points |-> Get(parsed.data, "good_points", <<>>),
                    improvement_points |-> Get(parsed.data, "improvement_points", <<>>),
                    missed_points |-> Get(parsed.data, "missed_points", <<>>),
                    mentor_comment |-> Get(parsed.data, "mentor_comment", <<>>),
                    reasoning_summary |-> Get(parsed.data, "reasoning_summary", <<>>)])
    IN  IF ~tryBody.raised THEN tryBody
        ELSE IF tryBody.exc = "APIError"
        THEN create_error_feedback("api_error")
        ELSE create_error_feedback("response_processing_error")

\* ------------------------------------- QuestionGenerationAgent/__init__.py
ParsedLists ==
    { [ok |-> FALSE, items |-> <<>>],
      [ok |-> TRUE, items |-> <<>>],
      [ok |-> TRUE, items |-> << [title |-> "a", question |-> "q",
                                  completed |-> TRUE] >>] }

\* shared_code.models defines no Question; Question(...) stands for the
\* record its to_dict() would give.
Question(q, importance, category) ==
    [id |-> "uuid", question |-> q, importance |-> importance, category |-> category]

QuestionGenerationAgent(req, clientOK, api, parsed) ==
    IF "Question" \notin ModelsExports THEN Raised("ImportError")
    ELSE IF ~clientOK
    THEN Returned(<<Question("client_not_initialized", "medium", "etc")>>)
    ELSE IF api # "ok" \/ ~parsed.ok
    THEN Returned(<<Question("default_1", "medium", "etc"),
                    Question("default_2", "high", "apply"),
                    Question("default_3", "medium", "critical"),
                    Question("default_4", "low", "study")>>)
    ELSE Returned([i \in 1..Len(parsed.items) |->
                     Question(Get(parsed.items[i], "question", ""),
                              Get(parsed.items[i], "importance", "medium"),
                              Get(parsed.items[i], "category", "etc"))])

\* ----------------------------------- ActionItemSuggestionAgent/__init__.py
\* NextAction(id=, title=, description=, category=, estimatedTime=,
\*            completed=, priority=).to_dict() for each element
NextActions(kws) ==
    LET made == [i \in 1..Len(kws) |-> NextActionInit(kws[i])]
    IN  IF \E i \in 1..Len(kws) : made[i].raised THEN Raised("TypeError")
        ELSE Returned([i \in 1..Len(kws) |-> made[i].value])

ActionKw(title, completed, priority) ==
    [id |-> "uuid", title |-> title, description |-> "d", category |-> "c",
     estimatedTime |-> "e", completed |-> completed, priority |-> priority]

ActionItemSuggestionAgent(req, clientOK, api, parsed) ==
    IF ~clientOK
    THEN NextActions(<<ActionKw("client_not_initialized", FALSE, "high")>>)
    ELSE
    LET tryBody ==
            IF api # "ok" THEN Raised("Exception")
            ELSE IF ~parsed.ok THEN Raised("ValueError")
            ELSE IF Len(parsed.items) = 0 THEN Raised("ValueError")
            ELSE NextActions([i \in 1..Len(parsed.items) |->
                     ActionKw(Get(parsed.items[i], "title", "default_title"),
                              Get(parsed.items[i], "completed", FALSE),
                              Get(parsed.items[i], "priority", "high"))])
    IN  IF ~tryBody.raised THEN tryBody
        ELSE NextActions(<<ActionKw("reread_document", FALSE, "medium"),
                           ActionKw("fix_weak_points", FALSE, "high")>>)

\* ------------------------------------------ shared_code/mongodb_storage.py
\* What a lookup returns when there is no document (Python None).
None == [none |-> TRUE]

\* AnalysisResultStorage.save_analysis_result: replace_one(..., upsert=True)
\* inside try/except; every failure comes back as success=False.
save_analysis_result(coll, mode, user_id, report_id, analysis_result, now) ==
    IF mode = "ok"
    THEN [success |-> TRUE,
          coll |-> {d \in coll : ~(d.userId = user_id /\ d.reportId = report_id)}
                   \cup {[userId |-> user_id, reportId |-> report_id,
                          analysis_result |-> analysis_result,
                          creation_datetime |-> now]}]
    ELSE [success |-> FALSE, coll |-> coll]

\* get_analysis_results_by_user: the user's documents, newest first; [] on
\* an exception.
RECURSIVE NewestFirst(_)
NewestFirst(docs) ==
    IF docs = {} THEN <<>>
    ELSE LET d == CHOOSE x \in docs :
                     \A y \in docs : y.creation_datetime <= x.creation_datetime
         IN  <<d>> \o NewestFirst(docs \ {d})

get_analysis_results_by_user(coll, mode, user_id) ==
    IF mode # "ok" THEN <<>>
    ELSE LET docs == NewestFirst({d \in coll : d.userId = user_id})
         IN  [i \in 1..Len(docs) |->
                 [userId |-> docs[i].userId, reportId |-> docs[i].reportId,
                  value |-> docs[i].analysis_result,
                  creation_datetime |-> docs[i].creation_datetime]]

\* get_analysis_result_by_report: find_one on (userId, reportId); None when
\* there is no document and on an exception.
get_analysis_result_by_report(coll, mode, user_id, report_id) ==
    LET docs == {d \in coll : d.userId = user_id /\ d.reportId = report_id}
    IN  IF mode # "ok" \/ docs = {} THEN None
        ELSE LET d == CHOOSE x \in docs : TRUE
             IN  [userId |-> d.userId, reportId |-> d.reportId,
                  value |-> d.analysis_result,
                  creation_datetime |-> d.creation_datetime]

\* An update that sets isChecked on every action of the report.
SetCheckedAll(next_actions, idx, is_checked) ==
    [i \in 1..Len(next_actions) |->
        [k \in DOMAIN next_actions[i] \cup {"isChecked"} |->
            IF k = "isChecked" THEN is_checked ELSE next_actions[i][k]]]

\* next_actions with isChecked of the action at position idx (0-based) set.
SetChecked(next_actions, idx, is_checked) ==
    [i \in 1..Len(next_actions) |->
        IF i = idx + 1
        THEN [k \in DOMAIN next_actions[i] \cup {"isChecked"} |->
                 IF k = "isChecked" THEN is_checked ELSE next_actions[i][k]]
        ELSE next_actions[i]]

UpdateFailed(coll, error) ==
    [success |-> FALSE, error |-> error, updated_action |-> None, coll |-> coll]

\* update_next_action_checked_status: find_one, the three checks, then
\* update_one with $set on analysis_result.next_actions.<idx>.isChecked;
\* success is modified_count > 0 and updated_action is the action as read
\* before the update.
update_next_action_checked_status(coll, mode, user_id, report_id, next_action_idx, is_checked) ==
    LET docs == {d \in coll : d.userId = user_id /\ d.reportId = report_id}
    IN  IF mode # "ok" THEN UpdateFailed(coll, "exception")
        ELSE IF docs = {} THEN UpdateFailed(coll, "Analysis result not found")
        ELSE
        LET d == CHOOSE x \in docs : TRUE
            next_actions == Get(d.analysis_result, "next_actions", <<>>)
            updated == [d EXCEPT !.analysis_result.next_actions =
                           SetChecked(next_actions, next_action_idx, is_checked)]
        IN  IF next_actions = <<>> THEN UpdateFailed(coll, "No next_actions found")
            ELSE IF next_action_idx < 0 \/ next_action_idx >= Len(next_actions)
            THEN UpdateFailed(coll, "Invalid index")
            ELSE IF updated # d
            THEN [success |-> TRUE, error |-> "",
                  updated_action |-> next_actions[next_action_idx + 1],
                  coll |-> (coll \ {d}) \cup {updated}]
            ELSE UpdateFailed(coll, "Failed to update document in MongoDB")

\* ------------------------------------- shared_code/azure_search_storage.py
\* json.dumps / json.loads: the text of a value, and the value of a text.
json_dumps(v) == [json |-> v]
json_loads(text) == text.json

\* safe_list: an empty list becomes None.
safe_list(value) == [null |-> value = <<>>, items |-> value]

\* Lines 161-170: dict items give their non-empty question text, str items
\* themselves.
normalize_suggested_questions(raw_sq) ==
    LET kept == SelectSeq(raw_sq, LAMBDA item :
                    item.kind = "str" \/ item.question # "")
    IN  [i \in 1..Len(kept) |-> [kind |-> "str", question |-> kept[i].question]]

FeedbackOf(analysis_result) == Get(analysis_result, "feedback", EmptyDict)

\* Lines 187-201 and 407-421: the index document; suggested_questions is
\* what the caller made of the report's list.
SearchDocument(id, user_id, report_id, creation_datetime, analysis_result, suggested_questions, next_actions) ==
    [id |-> id, userId |-> user_id, reportId |-> report_id,
     creation_datetime |-> creation_datetime,
     score |-> Get(analysis_result, "score", 0),
     good_points |-> safe_list(Get(FeedbackOf(analysis_result), "good_points", <<>>)),
     improvement_points |->
         safe_list(Get(FeedbackOf(analysis_result), "improvement_points", <<>>)),
     missed_points |->
         safe_list(Get(FeedbackOf(analysis_result), "missed_points", <<>>)),
     mentor_comment |->
         safe_list(Get(FeedbackOf(analysis_result), "mentor_comment", <<>>)),
     reasoning_summary |->
         safe_list(Get(FeedbackOf(analysis_result), "reasoning_summary", <<>>)),
     suggested_questions |-> safe_list(suggested_questions),
     next_actions |-> json_dumps(next_actions),
     analysis_result_json |-> json_dumps(analysis_result)]

\* Line 96: suggested_questions is a Collection(String) field of the index.
SchemaAccepts(document) ==
    \A i \in 1..Len(document.suggested_questions.items) :
        document.suggested_questions.items[i].kind = "str"

\* search_client.upload_documents([document]): insert or replace by id;
\* raises when the service is down or refuses the document.
upload_documents(index, mode, document) ==
    IF mode # "ok" \/ ~SchemaAccepts(document)
    THEN Raised("HttpResponseError")
    ELSE Returned({d \in index : d.id # document.id} \cup {document})

\* Lines 135-234, save_analysis_result of the search back end: a new
\* document id per call.
search_save_analysis_result(index, mode, user_id, report_id, analysis_result, now) ==
    LET document ==
            SearchDocument(<<user_id, report_id, now>>, user_id, report_id, now,
                analysis_result,
                normalize_suggested_questions(
                    Get(analysis_result, "suggested_questions", <<>>)),
                Get(analysis_result, "next_actions", <<>>))
        result == upload_documents(index, mode, document)
    IN  IF result.raised THEN [success |-> FALSE, coll |-> index]
        ELSE [success |-> TRUE, coll |-> result.value]

\* A query returning the oldest document of the set.
Oldest(docs) ==
    CHOOSE x \in docs : \A y \in docs : x.creation_datetime <= y.creation_datetime

\* The document a query with order_by creation_datetime desc, top=1 returns.
Newest(docs) ==
    CHOOSE x \in docs : \A y \in docs : y.creation_datetime <= x.creation_datetime

FormattedResult(result) ==
    [id |-> result.id, userId |-> result.userId, reportId |-> result.reportId,
     value |-> [k \in DOMAIN json_loads(result.analysis_result_json)
                      \cup {"next_actions"} |->
                   IF k = "next_actions" THEN json_loads(result.next_actions)
                   ELSE json_loads(result.analysis_result_json)[k]],
     creation_datetime |-> result.creation_datetime]

\* Lines 236-288, get_analysis_results_by_user of the search back end.
search_get_analysis_results_by_user(index, mode, user_id) ==
    IF mode # "ok" THEN <<>>
    ELSE LET docs == NewestFirst({d \in index : d.userId = user_id})
         IN  [i \in 1..Len(docs) |-> FormattedResult(docs[i])]

\* A lookup whose filter names the report id alone.
search_get_by_report_id(index, mode, user_id, report_id) ==
    LET docs == {d \in index : d.reportId = report_id}
    IN  IF mode # "ok" \/ docs = {} THEN None
        ELSE FormattedResult(Newest(docs))

\* Lines 290-348, get_analysis_result_by_report of the search back end.
search_get_analysis_result_by_report(index, mode, user_id, report_id) ==
    LET docs == {d \in index : d.userId = user_id /\ d.reportId = report_id}
    IN  IF mode # "ok" \/ docs = {} THEN None
        ELSE FormattedResult(Newest(docs))

\* Lines 350-449, update_next_action_checked_status of the search back end:
\* read the newest document, set isChecked, upload the whole document again
\* under the same id.
search_update_next_action_checked_status(index, mode, user_id, report_id, next_action_idx, is_checked) ==
    LET analysis_result ==
            search_get_analysis_result_by_report(index, mode, user_id, report_id)
    IN  IF analysis_result = None
        THEN UpdateFailed(index, "Analysis result not found")
        ELSE
        LET value == analysis_result.value
            next_actions == value.next_actions
            updated_actions == SetChecked(next_actions, next_action_idx, is_checked)
            updated_value == [value EXCEPT !.next_actions = updated_actions]
            updated_document ==
                SearchDocument(analysis_result.id, user_id, report_id,
                    analysis_result.creation_datetime, updated_value,
                    Get(updated_value, "suggested_questions", <<>>),
                    updated_actions)
            result == upload_documents(index, mode, updated_document)
        IN  IF next_actions = <<>> THEN UpdateFailed(index, "No next_actions found")
            ELSE IF next_action_idx < 0 \/ next_action_idx >= Len(next_actions)
            THEN UpdateFailed(index, "Invalid index")
            ELSE IF result.raised THEN UpdateFailed(index, result.exc)
            ELSE [success |-> TRUE, error |-> "",
                  updated_action |-> updated_actions[next_action_idx + 1],
                  coll |-> result.value]

\* ------------------------------------------------- CheckedApi/__init__.py
\* Which of the words main looks for occur in error.lower().  The text of
\* an exception of the search client has none of them.
\* ReportApi.main with both parameters given: lines 48-81.
ReportApi(index, mode, user_id, report_id) ==
    LET result == search_get_analysis_result_by_report(index, mode, user_id,
                                                       report_id)
    IN  IF result = None
        THEN [status_code |-> 404, analysis_result |-> None]
        ELSE [status_code |-> 200, analysis_result |-> result.value]

WordsIn(error) ==
    IF error = "Analysis result not found" THEN {"not found"}
    ELSE IF error = "Invalid index" THEN {"invalid"}
    ELSE {}

\* Lines 102-116: the status code for an update result.
CheckedStatusCode(update_result) ==
    IF update_result.success THEN 200
    ELSE IF "not found" \in WordsIn(update_result.error) THEN 404
    ELSE IF "invalid" \in WordsIn(update_result.error)
            \/ "out of range" \in WordsIn(update_result.error) THEN 400
    ELSE 500

\* ------------------------------------------- JobMateOrchestrator/__init__.py
\* Lines 35-38: processed_content, with stt_texts added when there are any.
processed_content(content, stt_texts) ==
    IF stt_texts # <<>>
    THEN [k \in DOMAIN content \cup {"stt_texts"} |->
             IF k = "stt_texts" THEN stt_texts ELSE content[k]]
    ELSE content

\* Lines 44-49: the one record handed to all three analysis agents.
analysis_data(req, processed) ==
    [user_summary |-> req.user_summary,
     file_analysis |-> Get(processed, "file_analysis", <<>>),
     document_content |-> Get(processed, "extracted_content", <<>>),
     stt_texts |-> Get(processed, "stt_texts", <<>>)]

\* The body running on past line 35 without the completion of ContentAwareAgent.
ContentYieldReturnsEarly(h) == TRUE

\* Line 35: the yield returns once the activity's completion is in the history.
ContentYieldReturns(h) == "ContentAwareAgent" \in h

\* Lines 51-53: the activities the body calls after the first yield.
CalledAfterContent == AnalysisAgents

\* Line 56, context.task_all: raises as soon as one child in the history has
\* failed, returns when every child has succeeded, keeps the body suspended
\* otherwise.
task_all(h, state, children) ==
    IF \E c \in children : c \in h /\ state[c] = "failed" THEN "raise"
    ELSE IF \A c \in children : c \in h /\ state[c] = "succeeded" THEN "return"
    ELSE "wait"

\* Keys counted from one.
WithKeysFromOne(next_actions) ==
    [i \in 1..Len(next_actions) |->
        [k \in DOMAIN next_actions[i] \cup {"key", "isChecked"} |->
            IF k = "key" THEN i
            ELSE IF k = "isChecked" THEN FALSE
            ELSE next_actions[i][k]]]

\* Lines 78-81: key and isChecked on every action.
WithKeys(next_actions) ==
    [i \in 1..Len(next_actions) |->
        [k \in DOMAIN next_actions[i] \cup {"key", "isChecked"} |->
            IF k = "key" THEN i - 1
            ELSE IF k = "isChecked" THEN FALSE
            ELSE next_actions[i][k]]]

\* Lines 60-81: AnalysisResult(title=..., ...).to_dict() and the keys.
Assemble(evaluation_result, question_result, action_item_result, file_analysis) ==
    IF ~({"title", "score"} \subseteq DOMAIN evaluation_result)
    THEN Raised("KeyError")
    ELSE
    LET feedback == FeedbackInit(evaluation_result)
        result == AnalysisResultInit(
                     [title |-> evaluation_result["title"],
                      score |-> evaluation_result["score"],
                      feedback |-> feedback.value,
                      suggested_questions |-> question_result,
                      next_actions |-> action_item_result,
                      file_analysis |-> file_analysis])
    IN  IF feedback.raised THEN feedback
        ELSE IF result.raised THEN result
        ELSE Returned([k \in DOMAIN result.value |->
                          IF k = "next_actions" THEN WithKeys(result.value[k])
                          ELSE result.value[k]])

\* The returned dict with file_analysis left in.
OutputWithFileAnalysis(dict, report_id) ==
    [k \in DOMAIN dict \cup {"report_id"} |->
        IF k = "report_id" THEN report_id ELSE dict[k]]

\* Lines 113-114: report_id attached, file_analysis removed.
Output(dict, report_id) ==
    [k \in (DOMAIN dict \cup {"report_id"}) \ {"file_analysis"} |->
        IF k = "report_id" THEN report_id ELSE dict[k]]

\* No store call has been made yet.
NoCall ==
    [op |-> "none", mode |-> "ok", user_id |-> "", report_id |-> 0, idx |-> 0,
     is_checked |-> FALSE, value |-> EmptyDict, success |-> FALSE,
     error |-> "", updated_action |-> None, status_code |-> 0,
     output |-> EmptyDict, before |-> {}, requested |-> 0]

\* No HTTP request has been received yet.
NoHttp == [handled |-> FALSE]

\* Nobody is inside CheckedApi.
NoCalls == <<>>

TypeOK ==
    /\ status \in {"Running", "Failed", "Completed"}
    /\ task \in [ActivityNames -> {"none", "scheduled", "succeeded", "failed"}]
    /\ inbox \subseteq ActivityNames \cup {"start"}
    /\ history \subseteq ActivityNames
    /\ invocations \in [Stages -> Nat]
    /\ episodes \in Nat
    /\ assembled \in BOOLEAN
    /\ uuids \in Nat
    /\ storeMode \in StoreModes

\* The instance as HttpStart starts it.  Requests carry one file per file
\* name; the JSON path also lets an empty file list and an empty summary in.
Requests ==
    { [file_names |-> names, files |-> Indices(names),
       user_summary |-> s, user_id |-> u] :
       names \in SeqsUpTo(FileKinds, MaxFiles), s \in Summaries, u \in UserIds }

Init ==
    /\ request \in Requests
    /\ storeMode \in StoreModes
    /\ status = "Running"
    /\ task = [a \in ActivityNames |-> "none"]
    /\ taskInput = [a \in ActivityNames |-> EmptyDict]
    /\ taskResult = [a \in ActivityNames |-> Returned(EmptyDict)]
    /\ inbox = {"start"}
    /\ history = {}
    /\ invocations = [s \in Stages |-> 0]
    /\ episodes = 0
    /\ assembled = FALSE
    /\ uuids = 0
    /\ store = {}
    /\ output = EmptyDict
    /\ search = {}
    /\ clock = 0
    /\ last = NoCall
    /\ http = NoHttp
    /\ started = <<>>
    /\ calls = NoCalls

\* One execution of orchestrator_function: the body runs from line 15 with
\* the recorded completions replayed, up to the yield that has no
\* completion yet, or to its end.
OrchestratorEpisode ==
    /\ status = "Running"
    /\ inbox # {}
    /\ LET h == history \cup (inbox \ {"start"})
           stt_texts == stt_for_files(request.file_names)
           first == IF task["ContentAwareAgent"] = "none"
                    THEN {"ContentAwareAgent"} ELSE {}
           past35 == ContentYieldReturns(h)
           processed == processed_content(taskResult["ContentAwareAgent"].value,
                                          stt_texts)
           data == analysis_data(request, processed)
           second == IF past35 /\ \E a \in CalledAfterContent : task[a] = "none"
                     THEN {a \in CalledAfterContent : task[a] = "none"} ELSE {}
           join == IF past35 /\ second = {}
                   THEN task_all(h, task, AnalysisAgents) ELSE "wait"
           dict == Assemble(taskResult["ComprehensionEvaluationAgent"].value,
                            taskResult["QuestionGenerationAgent"].value,
                            taskResult["ActionItemSuggestionAgent"].value,
                            Get(processed, "file_analysis", <<>>))
           done == join = "return" /\ ~dict.raised
           report_id == uuids + 1
           saved == IF storeMode = "init_raises"
                    THEN [success |-> FALSE, coll |-> store]
                    ELSE save_analysis_result(store, storeMode, request.user_id,
                                              report_id, dict.value, clock)
       IN  /\ history' = h
           /\ inbox' = {}
           /\ episodes' = episodes + 1
           /\ invocations' =
                 [invocations EXCEPT !["SpeechToText"] =
                     @ + (IF stt_texts # <<>> THEN 1 ELSE 0)]
           /\ task' = [a \in ActivityNames |->
                          IF a \in first \cup second THEN "scheduled" ELSE task[a]]
           /\ taskInput' = [a \in ActivityNames |->
                          IF a \in first
                          THEN [file_names |-> request.file_names,
                                files |-> request.files]
                          ELSE IF a \in second THEN data
                          ELSE taskInput[a]]
           /\ status' = IF join = "raise" \/ (join = "return" /\ dict.raised)
                        THEN "Failed"
                        ELSE IF done THEN "Completed" ELSE "Running"
           /\ assembled' = done
           /\ uuids' = IF done THEN report_id ELSE uuids
           /\ store' = IF done THEN saved.coll ELSE store
           /\ output' = IF done THEN Output(dict.value, report_id) ELSE output
           /\ clock' = IF done THEN clock + 1 ELSE clock
    /\ UNCHANGED <<request, storeMode, taskResult, search, last, edgeVars>>

\* An activity function runs to its end; its completion is queued for the
\* orchestrator.
Complete(a, outcome) ==
    /\ taskResult' = [taskResult EXCEPT ![a] = outcome]
    /\ task' = [task EXCEPT ![a] = IF outcome.raised THEN "failed" ELSE "succeeded"]
    /\ inbox' = inbox \cup {a}
    /\ invocations' = [invocations EXCEPT ![a] = @ + 1]
    /\ UNCHANGED <<request, storeMode, status, taskInput, history, episodes,
                   assembled, uuids, store, output, search, clock, last,
                   edgeVars>>

RunContentAwareAgent ==
    \E configured \in BOOLEAN :
    \E outcome \in [1..Len(request.file_names) -> DocOutcomes] :
        /\ task["ContentAwareAgent"] = "scheduled"
        /\ \A i \in 1..Len(request.file_names) :
              is_audio_or_video(request.file_names[i]) => outcome[i] = "text"
        /\ Complete("ContentAwareAgent",
                    ContentAwareAgent(taskInput["ContentAwareAgent"],
                                      configured, outcome))

RunComprehensionEvaluationAgent ==
    \E clientOK \in BOOLEAN, api \in ApiOutcomes, parsed \in ParsedEvaluations :
        /\ task["ComprehensionEvaluationAgent"] = "scheduled"
        /\ Complete("ComprehensionEvaluationAgent",
                 ComprehensionEvaluationAgent(
                     taskInput["ComprehensionEvaluationAgent"], clientOK, api, parsed))

RunQuestionGenerationAgent ==
    \E clientOK \in BOOLEAN, api \in ApiOutcomes, parsed \in ParsedLists :
        /\ task["QuestionGenerationAgent"] = "scheduled"
        /\ Complete("QuestionGenerationAgent",
                 QuestionGenerationAgent(
                     taskInput["QuestionGenerationAgent"], clientOK, api, parsed))

RunActionItemSuggestionAgent ==
    \E clientOK \in BOOLEAN, api \in ApiOutcomes, parsed \in ParsedLists :
        /\ task["ActionItemSuggestionAgent"] = "scheduled"
        /\ Complete("ActionItemSuggestionAgent",
                 ActionItemSuggestionAgent(
                     taskInput["ActionItemSuggestionAgent"], clientOK, api, parsed))

Next ==
    \/ OrchestratorEpisode
    \/ RunContentAwareAgent
    \/ RunComprehensionEvaluationAgent
    \/ RunQuestionGenerationAgent
    \/ RunActionItemSuggestionAgent

Spec == Init /\ [][Next]_vars

\* ------------------------------------------- the stores and their callers
\* Reports as lines 60-77 of the orchestrator hand them on: the to_dict()
\* form of an AnalysisResult.  A question is tagged with its Python type
\* (dict or str); an action is what the action agent returned, every second
\* one with completed set.  The report with n actions has no question, a
\* dict question or a str question.
QuestionsOf(n) ==
    IF n % 3 = 0 THEN <<>>
    ELSE IF n % 3 = 1 THEN << [kind |-> "dict", question |-> "q"] >>
    ELSE << [kind |-> "str", question |-> "q"] >>
ActionsOf(n) == [i \in 1..n |-> ActionKw(i, i % 2 = 0, "high")]
AnalysisResultDict(questions, actions) ==
    [score |-> 70,
     feedback |-> [score |-> 70, good_points |-> <<"g">>,
                   improvement_points |-> <<>>, missed_points |-> <<>>,
                   mentor_comment |-> <<>>, reasoning_summary |-> <<>>],
     suggested_questions |-> questions,
     next_actions |-> actions,
     file_analysis |-> <<FileAnalysisResult(1, "mime", <<1>>, "success")>>]

\* Lines 78-81 of the orchestrator on a to_dict() result.
Keyed(dict) == [dict EXCEPT !.next_actions = WithKeys(@)]

StoreRequest ==
    [file_names |-> <<"doc">>, files |-> <<1>>, user_summary |-> "summary",
     user_id |-> "u1"]

\* The reportId a request may carry: none (0) or one the client chose, which
\* is no uuid of this server.
RequestedReportIds == {0, MaxSaves + 1}

InitStore == Init /\ request = StoreRequest /\ storeMode = "ok"

\* Lines 76-117 of the orchestrator for an instance whose AnalysisResult
\* exists: keys, report_id, save to MongoDB, the returned dict.  The
\* request's reportId is in the input and is never read.
PersistAndReturn ==
    \E user_id \in UserIds, n \in 0..MaxActions, mode \in StoreModes,
       requested \in RequestedReportIds :
        /\ clock < MaxSaves
        /\ LET dict == Keyed(AnalysisResultDict(QuestionsOf(n), ActionsOf(n)))
               report_id == uuids + 1
               saved == IF mode = "init_raises"
                        THEN [success |-> FALSE, coll |-> store]
                        ELSE save_analysis_result(store, mode, user_id,
                                                  report_id, dict, clock)
           IN  /\ store' = saved.coll
               /\ uuids' = report_id
               /\ last' = [NoCall EXCEPT !.op = "persist", !.mode = mode,
                              !.user_id = user_id,
                              !.report_id = report_id, !.value = dict,
                              !.success = saved.success,
                              !.output = Output(dict, report_id),
                              !.before = store, !.requested = requested]
        /\ clock' = clock + 1
        /\ UNCHANGED <<instanceVars, search, edgeVars>>

\* SaveResultActivity.main: the payload's report saved to the search index.
SaveResultActivity ==
    \E user_id \in UserIds, report_id \in NamedReportIds \cup {0},
       n \in 0..MaxActions, mode \in SearchModes \cup {"init_raises"} :
        /\ clock < MaxSaves
        /\ LET analysis_result ==
                   Keyed(AnalysisResultDict(QuestionsOf(n), ActionsOf(n)))
               result == IF report_id = 0 \/ mode = "init_raises"
                         THEN [success |-> FALSE, coll |-> search]
                         ELSE search_save_analysis_result(search, mode, user_id,
                                  report_id, analysis_result, clock)
           IN  /\ search' = result.coll
               /\ last' = [NoCall EXCEPT !.op = "save", !.mode = mode,
                              !.user_id = user_id,
                              !.report_id = report_id, !.value = analysis_result,
                              !.success = result.success, !.before = search]
        /\ clock' = clock + 1
        /\ UNCHANGED <<instanceVars, uuids, store, edgeVars>>

\* mongodb_storage.update_next_action_checked_status called on the
\* collection, MongoDB answering.
UpdateCheckedStatus ==
    \E user_id \in UserIds, report_id \in ReportIds, idx \in -1..MaxActions,
       is_checked \in BOOLEAN :
        LET r == update_next_action_checked_status(store, "ok", user_id,
                                                   report_id, idx, is_checked)
        IN  /\ store' = r.coll
            /\ last' = [NoCall EXCEPT !.op = "update_mongo", !.user_id = user_id,
                           !.report_id = report_id, !.idx = idx,
                           !.is_checked = is_checked, !.success = r.success,
                           !.error = r.error,
                           !.updated_action = r.updated_action,
                           !.before = store]
            /\ UNCHANGED <<instanceVars, uuids, search, clock, edgeVars>>

\* CheckedApi.main with well-formed parameters: the update on the search
\* index and the status code of the response.
CheckedApi ==
    \E user_id \in UserIds, report_id \in NamedReportIds, idx \in -1..MaxActions,
       is_checked \in BOOLEAN, mode \in SearchModes :
        LET r == search_update_next_action_checked_status(search, mode,
                     user_id, report_id, idx, is_checked)
        IN  /\ search' = r.coll
            /\ last' = [NoCall EXCEPT !.op = "update_search", !.mode = mode,
                           !.user_id = user_id,
                           !.report_id = report_id, !.idx = idx,
                           !.is_checked = is_checked, !.success = r.success,
                           !.error = r.error,
                           !.updated_action = r.updated_action,
                           !.status_code = CheckedStatusCode(r),
                           !.before = search]
            /\ UNCHANGED <<instanceVars, uuids, store, clock, edgeVars>>

NextStore ==
    \/ PersistAndReturn
    \/ SaveResultActivity
    \/ UpdateCheckedStatus
    \/ CheckedApi

SpecStore == InitStore /\ [][NextStore]_vars

\* ---------------------------------------------- the join and the assembly
\* What the evaluation activity hands back: the to_dict() form of a
\* Feedback as the agent builds it (with title) and as shared_code.models
\* declares it (without).
EvaluationOutputs ==
    { [title |-> t, score |-> sc, good_points |-> <<"g">>,
       improvement_points |-> <<>>, missed_points |-> <<>>,
       mentor_comment |-> <<>>, reasoning_summary |-> <<>>] :
       t \in {"t", "analysis_error"}, sc \in {0, 70} }
    \cup
    { [score |-> sc, good_points |-> <<"g">>, improvement_points |-> <<>>,
       missed_points |-> <<>>, mentor_comment |-> <<>>,
       reasoning_summary |-> <<>>] : sc \in {0, 70} }

\* The instance at line 56 with the three analysis activities completed and
\* their completions not yet replayed.
InitAssemble ==
    /\ request \in Requests
    /\ storeMode \in StoreModes
    /\ status = "Running"
    /\ task = [a \in ActivityNames |-> "succeeded"]
    /\ \E evaluation \in EvaluationOutputs, n \in 0..MaxActions :
          LET content == ContentAwareAgent(
                             [file_names |-> request.file_names,
                              files |-> request.files], TRUE,
                             [i \in 1..Len(request.file_names) |-> "text"])
              data == analysis_data(request,
                          processed_content(content.value,
                                            stt_for_files(request.file_names)))
          IN  /\ taskInput = [a \in ActivityNames |->
                     IF a = "ContentAwareAgent"
                     THEN [file_names |-> request.file_names,
                           files |-> request.files]
                     ELSE data]
              /\ taskResult = [a \in ActivityNames |->
                     IF a = "ContentAwareAgent" THEN content
                     ELSE IF a = "ComprehensionEvaluationAgent"
                     THEN Returned(evaluation)
                     ELSE IF a = "QuestionGenerationAgent"
                     THEN Returned(QuestionsOf(n))
                     ELSE Returned(ActionsOf(n))]
    /\ inbox = AnalysisAgents
    /\ history = {"ContentAwareAgent"}
    /\ invocations = [s \in Stages |->
          IF s = "SpeechToText"
          THEN 2 * (IF stt_for_files(request.file_names) # <<>> THEN 1 ELSE 0)
          ELSE 1]
    /\ episodes = 2
    /\ assembled = FALSE
    /\ uuids = 0
    /\ store = {}
    /\ output = EmptyDict
    /\ search = {}
    /\ clock = 0
    /\ last = NoCall
    /\ http = NoHttp
    /\ started = <<>>
    /\ calls = NoCalls

NextAssemble == OrchestratorEpisode

SpecAssemble == InitAssemble /\ [][NextAssemble]_vars

\* ------------------------------------------------------------------ claims
Evaluation == "ComprehensionEvaluationAgent"
Terminal == status # "Running"
Issued(a) == task[a] # "none"
Finished(a) == task[a] \in {"succeeded", "failed"}
\* A request as the ingress hands it over in normal use: files and a summary.
WellFormed == Len(request.files) >= 1 /\ request.user_summary # ""

\* C1: the question call and the action call are issued only after the
\* evaluation call has completed; no state has one of them issued while the
\* evaluation call is outstanding.
C1_QuestionActionAfterEvaluation ==
    WellFormed =>
        \A a \in AnalysisAgents \ {Evaluation} : Issued(a) => Finished(Evaluation)

\* C2: when the evaluation stage raises (the only failure the orchestrator
\* has seen), the instance ends Completed with a report of score 0 and a
\* non-empty improvement_points, never Failed.
C2_EvaluationFailureAbsorbed ==
    (WellFormed /\ Terminal /\ history \cap AnalysisAgents = {Evaluation}
                /\ task[Evaluation] = "failed")
    => /\ status = "Completed"
       /\ Get(output, "score", -1) = 0
       /\ Get(Get(output, "feedback", EmptyDict), "improvement_points", <<>>) # <<>>

\* C3: when the question call or the action call raises, the instance ends
\* Completed with a fallback sequence for that stage in its report.
C3_QuestionActionFailureAbsorbed ==
    (WellFormed /\ Terminal /\ \E a \in AnalysisAgents \ {Evaluation} :
                                  a \in history /\ task[a] = "failed")
    => /\ status = "Completed"
       /\ Len(Get(output, "suggested_questions", <<>>)) >= 1
       /\ Len(Get(output, "next_actions", <<>>)) >= 1

\* C4: the Failed terminal state is unreachable, whatever the stages do.
C4_NeverFailed == WellFormed => status # "Failed"

\* C5: with a store that cannot save, the instance still ends Completed and
\* returns the report with report_id attached.
C5_StoreFailureAbsorbed ==
    (WellFormed /\ Terminal /\ storeMode # "ok")
    => status = "Completed" /\ "report_id" \in DOMAIN output

\* C6: every stage (speech-to-text included) really runs at most once per
\* instance, however often the orchestrator body is replayed.
C6_StagesRunAtMostOnce == \A s \in Stages : invocations[s] <= 1

\* C8: the orchestrator leaves the wait of the parallel step only when every
\* call issued in that step has completed.
C8_JoinBarrier ==
    (WellFormed /\ Terminal /\ \A a \in AnalysisAgents : Issued(a))
    => \A a \in AnalysisAgents : Finished(a)

\* C9: the evaluation call is issued only after the content-extraction call
\* has completed, and the store holds a report only once the report has been
\* assembled, so an instance that stops earlier leaves nothing in the store.
C9_StagePrecedence ==
    /\ Issued(Evaluation) =>
          Finished("ContentAwareAgent") /\ "ContentAwareAgent" \in history
    /\ store # {} => assembled

C9_Witness ==
    /\ status = "Failed"
    /\ Issued(Evaluation)
    /\ ~assembled
    /\ store = {}

\* C10: the question call and the action call receive the same input record,
\* which carries the evaluation output, and neither carries the other's output.
C10_SameEvaluationSnapshot ==
    (WellFormed /\ Issued("QuestionGenerationAgent")
                /\ Issued("ActionItemSuggestionAgent"))
    => /\ taskInput["QuestionGenerationAgent"] = taskInput["ActionItemSuggestionAgent"]
       /\ "evaluation" \in DOMAIN taskInput["QuestionGenerationAgent"]
       /\ DOMAIN taskInput["QuestionGenerationAgent"]
             \cap {"suggested_questions", "next_actions"} = {}

\* ------------------------------------------------- claims about the stores
\* The report value of a stored document, as a lookup gives it.
MongoReport(d) == d.analysis_result
SearchReport(d) == FormattedResult(d).value
UpdateOps == {"update_mongo", "update_search"}
\* The documents of the pair the last call named, in the collection it found.
Targets ==
    {d \in last.before : d.userId = last.user_id /\ d.reportId = last.report_id}
\* The document an update reads: the only one (MongoDB), the newest (search).
Target == IF last.op = "update_mongo" THEN CHOOSE d \in Targets : TRUE
          ELSE Newest(Targets)
ReportOf(d) == IF last.op \in {"update_mongo", "persist"} THEN MongoReport(d)
               ELSE SearchReport(d)
Current == IF last.op \in {"update_mongo", "persist"} THEN store ELSE search
ValidIndex(next_actions) == 0 <= last.idx /\ last.idx < Len(next_actions)
KeysPositional(next_actions) ==
    \A i \in 1..Len(next_actions) : next_actions[i].key = i - 1

\* C11: in every report an instance returns and in every stored report,
\* whatever checked-status updates were made, the action at position i
\* (0-based) has key i.
C11_KeysPositional ==
    /\ \A d \in store : KeysPositional(MongoReport(d).next_actions)
    /\ \A d \in search : KeysPositional(SearchReport(d).next_actions)
    /\ last.op = "persist" => KeysPositional(last.output.next_actions)

C11_Witness ==
    /\ last.op \in UpdateOps
    /\ last.success
    /\ \E d \in Current :
          /\ Len(ReportOf(d).next_actions) >= 2
          /\ \E i \in 1..Len(ReportOf(d).next_actions) :
                ReportOf(d).next_actions[i].isChecked

\* C12: right after a report is created every action has isChecked false
\* and completed false, whatever the action stage returned.
C12_FreshActionsUncheckedUncompleted ==
    last.op = "persist" /\ last.success =>
        \A d \in store :
            d.userId = last.user_id /\ d.reportId = last.report_id =>
                \A i \in 1..Len(MongoReport(d).next_actions) :
                    /\ MongoReport(d).next_actions[i].isChecked = FALSE
                    /\ MongoReport(d).next_actions[i].completed = FALSE

\* C13: an update on an existing report with a valid index changes nothing
\* in the stored record but isChecked of the action at that index: every
\* other document, every other column of the document and every other
\* part of its report value are as the call found them.
OnlyCheckedDiffers(before, after) ==
    /\ DOMAIN after = DOMAIN before
    /\ \A k \in DOMAIN before \ {"next_actions"} : after[k] = before[k]
    /\ Len(after.next_actions) = Len(before.next_actions)
    /\ \A i \in 1..Len(before.next_actions) :
          /\ DOMAIN after.next_actions[i] = DOMAIN before.next_actions[i]
          /\ \A k \in DOMAIN before.next_actions[i] :
                \/ after.next_actions[i][k] = before.next_actions[i][k]
                \/ /\ k = "isChecked"
                   /\ i = last.idx + 1
                   /\ after.next_actions[i][k] = last.is_checked
C13_UpdateFrame ==
    /\ last.op \in UpdateOps
    /\ Targets # {}
    /\ ValidIndex(ReportOf(Target).next_actions)
    => \E d \in Current :
          /\ Current \ {d} = last.before \ {Target}
          /\ OnlyCheckedDiffers(ReportOf(Target), ReportOf(d))
          /\ \A k \in DOMAIN Target \ {"next_actions", "analysis_result_json",
                                       "analysis_result"} :
                d[k] = Target[k]
          /\ last.success => ReportOf(d).next_actions[last.idx + 1].isChecked
                                = last.is_checked

C13_Witness ==
    /\ last.op = "update_search"
    /\ last.success
    /\ Len(SearchReport(Target).next_actions) >= 2
    /\ search # last.before
    /\ \E d \in store : \E i \in 1..Len(MongoReport(d).next_actions) :
          MongoReport(d).next_actions[i].isChecked

\* C14: an update on an existing report with an index below 0 or at or
\* beyond the length of next_actions, an empty next_actions included, is
\* refused with the out-of-range error ("Invalid index") and leaves the
\* collection as it was.
C14_OutOfRangeRejected ==
    /\ last.op \in UpdateOps
    /\ last.mode = "ok"
    /\ Targets # {}
    /\ ~ValidIndex(ReportOf(Target).next_actions)
    => /\ ~last.success
       /\ last.error = "Invalid index"
       /\ Current = last.before

\* C15: a failed CheckedApi call answers 404 exactly when the pair has no
\* report, 400 exactly when the index is no position of next_actions, and
\* 500 otherwise; with the report stored, a search service that is down
\* gives 500.
C15_FailuresDistinguished ==
    last.op = "update_search" /\ ~last.success =>
        /\ last.status_code = 404 => Targets = {}
        /\ last.mode = "ok" /\ Targets = {} => last.status_code = 404
        /\ last.status_code = 400 <=>
              /\ last.mode = "ok"
              /\ Targets # {}
              /\ ~ValidIndex(SearchReport(Target).next_actions)
        /\ last.mode = "down" /\ Targets # {} => last.status_code = 500

\* C16: after a save that returned success, the lookup of the same
\* (user_id, report_id) gives the report value that was saved.
C16_SaveGetRoundTrip ==
    /\ last.op = "persist" /\ last.success =>
          get_analysis_result_by_report(store, "ok", last.user_id,
                                        last.report_id) # None
          /\ get_analysis_result_by_report(store, "ok", last.user_id,
                                           last.report_id).value = last.value
    /\ last.op = "save" /\ last.success =>
          search_get_analysis_result_by_report(search, "ok", last.user_id,
                                               last.report_id) # None
          /\ search_get_analysis_result_by_report(search, "ok", last.user_id,
                                                  last.report_id).value = last.value

\* A second save under a pair that held another report value, the new one
\* with a dict question, which the index column does not keep as it is.
C16_Witness ==
    /\ last.op = "save"
    /\ last.success
    /\ \E d \in Targets : SearchReport(d) # last.value
    /\ \E i \in 1..Len(last.value.suggested_questions) :
          last.value.suggested_questions[i].kind = "dict"

\* C17: each collection holds at most one record per (userId, reportId),
\* and the listing of a user's reports names no reportId twice.
NoReportTwice(listing) ==
    \A i, j \in 1..Len(listing) :
        listing[i].reportId = listing[j].reportId => i = j
C17_OneRecordPerPair ==
    /\ \A d, e \in store : d.userId = e.userId /\ d.reportId = e.reportId => d = e
    /\ \A d, e \in search : d.userId = e.userId /\ d.reportId = e.reportId => d = e
    /\ \A u \in UserIds :
          /\ NoReportTwice(get_analysis_results_by_user(store, "ok", u))
          /\ NoReportTwice(search_get_analysis_results_by_user(search, "ok", u))

\* C18: a save or an update on one (userId, reportId) leaves the lookup of
\* every other pair as it was.
Lookup(coll, user_id, report_id) ==
    IF last.op \in {"update_mongo", "persist"}
    THEN get_analysis_result_by_report(coll, "ok", user_id, report_id)
    ELSE search_get_analysis_result_by_report(coll, "ok", user_id, report_id)
C20_ReturnedReport ==
    last.op = "persist" =>
        /\ "file_analysis" \notin DOMAIN last.output
        /\ "report_id" \in DOMAIN last.output
        /\ last.output.report_id = uuids
        /\ last.success =>
              \E d \in store : /\ d.userId = last.user_id
                               /\ d.reportId = last.output.report_id
                               /\ d.analysis_result = last.value
        /\ \A d \in store \ last.before : d.reportId = last.output.report_id

C20_Witness ==
    /\ last.op = "persist"
    /\ last.success
    /\ "file_analysis" \in DOMAIN last.value
    /\ last.value.file_analysis # <<>>
    /\ last.before # {}

\* ----------------------------------------------- claims about the assembly
\* C19: for every evaluation output the join hands over, one with a title
\* included, the assembly succeeds and the report's score and title are the
\* evaluation's.
C19_AssemblyCopiesEvaluation ==
    episodes > 2 /\ "title" \in DOMAIN taskResult[Evaluation].value =>
        /\ status = "Completed"
        /\ output.score = taskResult[Evaluation].value.score
        /\ output.title = taskResult[Evaluation].value.title

\* ---------------------------------------------------------------- HttpStart
MAX_TOTAL_FILE_SIZE == 10 * 1024 * 1024

ContentTypes == {"multipart/form-data", "application/json", "text/plain"}
BodyKeys == {"file_names", "files", "user_summary", "blob_urls"}
StarterModes == {"ok", "down"}

\* An uploaded file: its filename is set and it has bytes; a file input the
\* form left empty arrives without a filename and without bytes.  On the
\* JSON path an entry of files is the base64 text of that many bytes.
FileSizes == {1, MAX_TOTAL_FILE_SIZE \div 2 + 1}
FileObjects ==
    {[filename |-> FALSE, size |-> 0]}
    \cup {[filename |-> TRUE, size |-> sz] : sz \in FileSizes}

\* The file_names field: missing or empty, a JSON array, not JSON.
FileNamesTexts == {"", "[names]", "not json"}

\* The requests HttpStart receives.  keys are the fields the form or the
\* JSON object carries; a field that is not carried has no value; parses
\* says whether get_json() can read the body.
HttpRequests ==
    { r \in [content_type : ContentTypes, parses : BOOLEAN,
             keys : SUBSET BodyKeys, file_names : FileNamesTexts,
             user_summary : Summaries, files : SeqsUpTo(FileObjects, MaxFiles),
             user_id : {"", "u1"}] :
        /\ r.content_type # "application/json" => r.parses
        /\ ~r.parses => r.keys = {} /\ r.user_id = ""
        /\ "file_names" \notin r.keys => r.file_names = ""
        /\ "user_summary" \notin r.keys => r.user_summary = ""
        /\ "files" \notin r.keys => r.files = <<>> }

RECURSIVE total_size(_)
total_size(file_objects) ==
    IF file_objects = <<>> THEN 0
    ELSE (IF Head(file_objects).filename THEN Head(file_objects).size ELSE 0)
         + total_size(Tail(file_objects))

\* validate_file_sizes raises ValueError.
validate_file_sizes(file_objects) ==
    total_size(file_objects) > MAX_TOTAL_FILE_SIZE

HttpResponse(status_code) ==
    [status_code |-> status_code, start |-> FALSE, client_input |-> EmptyDict]

\* Lines 132-137 and 141-151: the request_data of each path.
MultipartRequestData(req) ==
    [keys |-> {"file_names", "files", "user_summary", "user_id"},
     file_names |-> req.file_names,
     files |-> SelectSeq(req.files, LAMBDA f : f.filename),
     user_summary |-> req.user_summary,
     user_id |-> IF req.user_id = "" THEN "anonymous_user" ELSE req.user_id]
JsonRequestData(req) ==
    [keys |-> req.keys \cup {"user_id"},
     file_names |-> req.file_names,
     files |-> req.files,
     user_summary |-> req.user_summary,
     user_id |-> IF req.user_id = "" THEN "anonymous_user" ELSE req.user_id]

\* Lines 159-199: the required fields, then start_new.
RequiredFields == {"file_names", "files", "user_summary"}
StartNew(request_data, starter) ==
    IF \E field \in RequiredFields : field \notin request_data.keys
    THEN HttpResponse(400)
    ELSE IF starter # "ok" THEN HttpResponse(500)
    ELSE [status_code |-> 202, start |-> TRUE, client_input |-> request_data]

\* main: the response and whether an instance was started, with what input.
HttpStartMain(req, starter) ==
    IF req.content_type = "multipart/form-data"
    THEN IF req.file_names = "" THEN HttpResponse(400)
         ELSE IF req.file_names = "not json" THEN HttpResponse(400)
         ELSE IF req.user_summary = "" THEN HttpResponse(400)
         ELSE IF req.files = <<>> THEN HttpResponse(400)
         ELSE IF validate_file_sizes(req.files) THEN HttpResponse(413)
         ELSE StartNew(MultipartRequestData(req), starter)
    ELSE IF req.content_type = "application/json"
    THEN IF ~req.parses THEN HttpResponse(400)
         ELSE IF req.keys = {} /\ req.user_id = "" THEN HttpResponse(400)
         ELSE StartNew(JsonRequestData(req), starter)
    ELSE HttpResponse(400)

InitIngress == InitStore

\* One request handled by HttpStart.
HttpStart ==
    \E req \in HttpRequests, starter \in StarterModes :
        /\ ~http.handled
        /\ LET r == HttpStartMain(req, starter)
           IN  /\ http' = [handled |-> TRUE, request |-> req,
                           starter |-> starter, status_code |-> r.status_code]
               /\ started' = IF r.start THEN Append(started, r.client_input)
                             ELSE started
        /\ UNCHANGED <<instanceVars, uuids, store, search, clock, last, calls>>

NextIngress == HttpStart

SpecIngress == InitIngress /\ [][NextIngress]_vars

\* ------------------------------------------------ claims about the ingress
Req == http.request
Supported == Req.content_type \in {"multipart/form-data", "application/json"}
TotalDecodedSize == total_size(Req.files)
OtherPartsGiven == Req.file_names = "[names]" /\ Req.user_summary # ""

\* C23: a request that carries no file (files missing or an empty list)
\* and no blob_urls, with file names and a summary, sent in a supported
\* content type while the starter works, is answered with 400 and starts
\* no instance.
C23_ZeroFilesRejected ==
    /\ http.handled /\ Supported /\ http.starter = "ok" /\ OtherPartsGiven
    /\ "blob_urls" \notin Req.keys
    /\ Req.files = <<>>
    => http.status_code = 400 /\ started = <<>>

\* C24: for a readable request with non-empty values while the starter
\* works, exactly one instance is started if and only if file_names and
\* user_summary are present and files or blob_urls is present; every other
\* such request gets 400 and starts nothing.
C24_StartedIffRequiredParts ==
    /\ http.handled /\ Supported /\ Req.parses /\ http.starter = "ok"
    /\ "file_names" \in Req.keys => Req.file_names = "[names]"
    /\ "user_summary" \in Req.keys => Req.user_summary # ""
    /\ "files" \in Req.keys =>
          /\ Req.files # <<>>
          /\ \A k \in 1..Len(Req.files) : Req.files[k].filename
          /\ TotalDecodedSize <= MAX_TOTAL_FILE_SIZE
    => LET required == /\ "file_names" \in Req.keys
                       /\ "user_summary" \in Req.keys
                       /\ Req.keys \cap {"files", "blob_urls"} # {}
       IN  /\ required => Len(started) = 1 /\ http.status_code = 202
           /\ ~required => started = <<>> /\ http.status_code = 400

\* C25: a request with file names, a summary and files that exceed 10 MiB
\* in total gets a 4xx response and starts no instance, on the multipart
\* and on the JSON path.
C25_OversizedRejected ==
    /\ http.handled /\ Supported /\ OtherPartsGiven
    /\ TotalDecodedSize > MAX_TOTAL_FILE_SIZE
    => http.status_code \in 400..499 /\ started = <<>>

\* ------------------------------------------- two CheckedApi calls at once
\* Two function invocations of CheckedApi run side by side on one report of
\* the search index.  Each reads the report (line 364 of the search back
\* end), computes the updated document from what it read, and uploads the
\* whole document (line 424); the other invocation may run in between.
Callers == {1, 2}
SharedUser == "u1"
SharedReport == 1

\* The report both calls name: saved by SaveResultActivity with MaxActions
\* actions and a str question, some actions checked by earlier calls.
SharedDocument(checked) ==
    LET saved == Keyed(AnalysisResultDict(
                           << [kind |-> "str", question |-> "q"] >>,
                           ActionsOf(MaxActions)))
        marked == [saved EXCEPT !.next_actions =
                      [i \in 1..MaxActions |->
                          [saved.next_actions[i] EXCEPT !.isChecked = i \in checked]]]
    IN  search_save_analysis_result({}, "ok", SharedUser, SharedReport,
                                    marked, 0).coll

InitConcurrent ==
    /\ request = StoreRequest
    /\ storeMode = "ok"
    /\ status = "Running"
    /\ task = [a \in ActivityNames |-> "none"]
    /\ taskInput = [a \in ActivityNames |-> EmptyDict]
    /\ taskResult = [a \in ActivityNames |-> Returned(EmptyDict)]
    /\ inbox = {"start"}
    /\ history = {}
    /\ invocations = [s \in Stages |-> 0]
    /\ episodes = 0
    /\ assembled = FALSE
    /\ uuids = 0
    /\ store = {}
    /\ output = EmptyDict
    /\ \E checked \in SUBSET (1..MaxActions) : search = SharedDocument(checked)
    /\ clock = 1
    /\ last = NoCall
    /\ http = NoHttp
    /\ started = <<>>
    /\ calls = [c \in Callers |->
                  [pc |-> "idle", idx |-> 0, is_checked |-> FALSE,
                   read |-> {}, success |-> FALSE]]

\* main up to the query of get_analysis_result_by_report: the parameters
\* and the document the query returned.
CheckedApiRead(c) ==
    \E idx \in 0..(MaxActions - 1), is_checked \in BOOLEAN :
        /\ calls[c].pc = "idle"
        /\ LET docs == {d \in search : /\ d.userId = SharedUser
                                       /\ d.reportId = SharedReport}
           IN  calls' = [calls EXCEPT ![c] =
                            [pc |-> "read", idx |-> idx,
                             is_checked |-> is_checked,
                             read |-> IF docs = {} THEN {} ELSE {Newest(docs)},
                             success |-> FALSE]]
        /\ UNCHANGED <<instanceVars, uuids, store, search, clock, last, http,
                       started>>

\* The rest of the call: the updated document is made of what was read and
\* uploaded into the index as it is now.
CheckedApiWrite(c) ==
    /\ calls[c].pc = "read"
    /\ LET r == search_update_next_action_checked_status(calls[c].read, "ok",
                    SharedUser, SharedReport, calls[c].idx, calls[c].is_checked)
           uploaded == upload_documents(search, "ok", CHOOSE d \in r.coll : TRUE)
       IN  /\ search' = IF r.success /\ ~uploaded.raised THEN uploaded.value
                        ELSE search
           /\ calls' = [calls EXCEPT ![c].pc = "done",
                                     ![c].success = r.success /\ ~uploaded.raised]
    /\ UNCHANGED <<instanceVars, uuids, store, clock, last, http, started>>

NextConcurrent ==
    \E c \in Callers :
        \/ CheckedApiRead(c)
        \/ CheckedApiWrite(c)

SpecConcurrent == InitConcurrent /\ [][NextConcurrent]_vars

\* ------------------------------------------- claims about concurrent updates
\* The report of the shared pair as ReportApi would return it.
SharedReportNow ==
    search_get_analysis_result_by_report(search, "ok", SharedUser,
                                         SharedReport).value

\* C29: when two concurrent checked-status updates on one report, for two
\* different indices, have both returned success, each index's isChecked
\* in the stored report is the value its own update requested.
C29_NoLostUpdate ==
    /\ calls # NoCalls
    /\ \A c \in Callers : calls[c].pc = "done" /\ calls[c].success
    /\ calls[1].idx # calls[2].idx
    => \A c \in Callers :
          SharedReportNow.next_actions[calls[c].idx + 1].isChecked
              = calls[c].is_checked

\* ------------------------------------- claims about the content extraction
ContentAgent == "ContentAwareAgent"
Content == taskResult[ContentAgent].value
\* Positions of file_analysis whose entry is not one of a processed file.
FailedEntries ==
    {k \in 1..Len(Content.file_analysis) :
        Content.file_analysis[k].processing_status
            \notin {"completed", "stt_completed"}}

\* C21: when exactly one of two or more files fails extraction the stage
\* still returns, the failed file's entry has empty text and the status
\* "error", and the text of every other file is in the combined text.
C21_OneFailedFile ==
    /\ WellFormed
    /\ Finished(ContentAgent)
    /\ Len(request.files) >= 2
    /\ Cardinality(FailedEntries) = 1
    => /\ task[ContentAgent] = "succeeded"
       /\ Len(Content.file_analysis) = Len(request.files)
       /\ \A k \in 1..Len(Content.file_analysis) :
             IF k \in FailedEntries
             THEN /\ Content.file_analysis[k].processing_status = "error"
                  /\ Content.file_analysis[k].extracted_text = <<>>
             ELSE \A t \in 1..Len(Content.file_analysis[k].extracted_text) :
                     \E j \in 1..Len(Content.extracted_content) :
                        Content.extracted_content[j]
                            = Content.file_analysis[k].extracted_text[t]

\* C22: for any mix of document and audio/video files, entry k of
\* file_analysis describes input file k and the combined text has the
\* files' texts in the order of the request.
C22_FileOrderPreserved ==
    /\ WellFormed
    /\ task[ContentAgent] = "succeeded"
    /\ "error" \notin DOMAIN Content
    /\ Len(request.files) >= 1
    => /\ Len(Content.file_analysis) = Len(request.file_names)
       /\ \A k \in 1..Len(Content.file_analysis) :
             Content.file_analysis[k].file_name = k
       /\ \A i, j \in 1..Len(Content.extracted_content) :
             i < j => Content.extracted_content[i] < Content.extracted_content[j]
\* --------------------------------------- claims about the report's identity
\* C26: when the request of an instance carries a reportId, the report is
\* stored under that reportId and the returned dict carries it.
C26_RequestedReportIdKept ==
    /\ last.op = "persist"
    /\ last.success
    /\ last.requested # 0
    => /\ last.output.report_id = last.requested
       /\ \E d \in store : /\ d.userId = last.user_id
                           /\ d.reportId = last.requested
                           /\ d.analysis_result = last.value

\* ------------------------------------ claims about the checked-status update
\* C27: a successful checked-status update returns the action at the index
\* as it is after the update: its isChecked is the requested value.
C27_UpdatedActionIsAfterState ==
    /\ last.op \in UpdateOps
    /\ last.success
    => /\ last.updated_action # None
       /\ last.updated_action.isChecked = last.is_checked

\* C28: on an existing report with a valid index and the store answering,
\* the update succeeds whether or not the action already has the requested
\* value, and an update that repeats the stored value leaves the collection
\* as it was.
C28_UpdateIdempotent ==
    /\ last.op \in UpdateOps
    /\ last.mode = "ok"
    /\ Targets # {}
    /\ ValidIndex(ReportOf(Target).next_actions)
    => /\ last.success
       /\ ReportOf(Target).next_actions[last.idx + 1].isChecked = last.is_checked
             => \A u \in UserIds, r \in ReportIds :
                    Lookup(Current, u, r) = Lookup(last.before, u, r)

\* ------------------------------------------------------ claims end to end
\* C30: after an instance has saved its report, ReportApi answers 200 with
\* that report for the user_id and the report_id of the instance's result,
\* and CheckedApi finds the report under them.
C30_SavedReportIsServed ==
    /\ last.op = "persist"
    /\ last.success
    => /\ ReportApi(search, "ok", last.user_id,
                    last.output.report_id).status_code = 200
       /\ ReportApi(search, "ok", last.user_id,
                    last.output.report_id).analysis_result = last.value
       /\ CheckedStatusCode(search_update_next_action_checked_status(search,
              "ok", last.user_id, last.output.report_id, 0, TRUE)) # 404

====
